---- MODULE Spec2Model ----
(***************************************************************************)
(* A model of the winterm console renderer (src/include/winterm.h, and its *)
(* predecessor src/include/win32-console.h): the backbuffer of cells, the  *)
(* drawing operations that write into it, the inline colour markup of      *)
(* string/stringc, and the cursor choreography of input.                   *)
(*                                                                         *)
(* Characters are their code points (wchar_t), strings are sequences of    *)
(* code points.  A C index i is the TLA+ index i + 1.  The backbuffer is a *)
(* sequence of cells; the empty sequence is the null unique_ptr.           *)
(***************************************************************************)
EXTENDS Integers, Sequences, FiniteSets, TLC

VARIABLES
  size,        \* impl::state().size, the stored console size [x, y]
  backbuffer,  \* impl::state().backbuffer, <<>> while it is null
  handles,     \* TRUE once initialize() has fetched out_handle / in_handle
  status,      \* "running", "aborted" (an assert failed), "thrown" (bad_alloc left size)
  cursor,      \* the console's cursor: [visible, x, y]
  cin,         \* std::cin: [buf (characters typed and not yet consumed), fail]
  pending,     \* the input call blocked in its read, or NoInput
  call,        \* the last completed call: its name, arguments and result
  nops         \* number of calls made so far

vars == <<size, backbuffer, handles, status, cursor, cin, pending, call, nops>>

----------------------------------------------------------------------------
(* Bounds of the model *)

MaxW == 3
MaxH == 2
NegDim == 1
MaxLen == 4
MaxOps == 3
MaxBuf == 6

(* Program constants *)

black == 0
white == 7
Backslash == 92
Hash == 35
CharX == 88
Char0 == 48
Space == 32
Newline == 10
AttrBits == 4

----------------------------------------------------------------------------
(* Unsigned 64-bit arithmetic (size_t), as eight 8-bit limbs, least        *)
(* significant first, so that no intermediate value leaves TLC's integers. *)

Pow2(n) == 2 ^ n

\* (size_t)n for an int n: two's complement with sign extension
ToSizeT(n) ==
  [k \in 0..7 |-> IF k < 4 THEN (n \div Pow2(8 * k)) % 256
                  ELSE IF n < 0 THEN 255 ELSE 0]

RECURSIVE MulColumn(_, _, _, _)
\* sum of a[i] * b[k - i] for i in from..k
MulColumn(a, b, k, from) ==
  IF from > k THEN 0 ELSE a[from] * b[k - from] + MulColumn(a, b, k, from + 1)

RECURSIVE MulCarry(_, _, _)
\* the value carried into limb k of a * b
MulCarry(a, b, k) ==
  IF k = 0 THEN 0
  ELSE (MulColumn(a, b, k - 1, 0) + MulCarry(a, b, k - 1)) \div 256

\* a * b modulo 2^64
MulSizeT(a, b) ==
  [k \in 0..7 |-> (MulColumn(a, b, k, 0) + MulCarry(a, b, k)) % 256]

IsZeroSizeT(a) == \A k \in 0..7 : a[k] = 0

\* whether a size_t value is small enough to be an element count new[] can serve
Allocatable(a) == \A k \in 3..7 : a[k] = 0

\* the value of an allocatable size_t
SizeTValue(a) == a[0] + 256 * a[1] + 65536 * a[2]

----------------------------------------------------------------------------
(* Attributes and cells *)

\* the constructor attribute(f, b): two 4-bit fields, _other = 0
attribute(f, b) ==
  [foreground |-> f % Pow2(AttrBits), background |-> b % Pow2(AttrBits)]

\* *(uint16_t*)&attrib : foreground in bits 0..3, background in bits 4..7
AttribWord(a) == a.foreground + Pow2(AttrBits) * a.background

\* one CHAR_INFO { character, attributes }
Cell(c, a) == [ch |-> c, attr |-> AttribWord(a)]

\* a CHAR_INFO of all-zero bytes, as memset leaves it
ZeroCell == [ch |-> 0, attr |-> 0]

\* (uint16_t)(c - L'0') stored into a 4-bit field
ColourOf(c) == ((c - Char0) % 65536) % Pow2(AttrBits)

\* str[i] for a C index i
At(str, i) == str[i + 1]

----------------------------------------------------------------------------
(* impl::string_length *)

RECURSIVE string_length_loop(_, _, _)
string_length_loop(str, i, real_length) ==
  IF ~(i < Len(str)) THEN real_length
  ELSE IF i + 1 < Len(str) /\ At(str, i) = Backslash /\ At(str, i + 1) = Hash
    THEN string_length_loop(str, (i + 1) + 1, real_length + 1)
  ELSE IF i + 2 < Len(str) /\ At(str, i) = Hash
    THEN string_length_loop(str, (i + 2) + 1, real_length)
  ELSE string_length_loop(str, i + 1, real_length + 1)

string_length(str) == string_length_loop(str, 0, 0)

----------------------------------------------------------------------------
(* impl::string *)

\* a slip: drawing starts one cell to the right of the position
StartIndex_OneRight(position, centered, str) ==
  LET start == (position.x + position.y * size.x) + 1
      len   == string_length(str)
  IN  IF centered
        THEN IF len \div 2 > position.x THEN start - position.x
             ELSE start - len \div 2
        ELSE start

\* first character index, after centering
StartIndex(position, centered, str) ==
  LET start == position.x + position.y * size.x
      len   == string_length(str)
  IN  IF centered
        THEN IF len \div 2 > position.x THEN start - position.x
             ELSE start - len \div 2
        ELSE start

\* the cell at column x of row y, as an index into the backbuffer sequence
CellIndex(x, y) == (x + y * size.x) + 1

\* a slip: the exit test lets one more column through
ReachedEnd_OffByOne(position, xpos) == position.x + xpos > size.x

\* the loop's exit test, "we reached the end"
ReachedEnd(position, xpos) == position.x + xpos >= size.x

\* a slip: the two colour codes of a tag are taken in the wrong order
TagAttrib_Swapped(str, i, attrib) ==
  [foreground |-> IF At(str, i + 2) # CharX THEN ColourOf(At(str, i + 2))
                  ELSE attrib.foreground,
   background |-> IF At(str, i + 1) # CharX THEN ColourOf(At(str, i + 1))
                  ELSE attrib.background]

\* the attribute after the tag at C index i
TagAttrib(str, i, attrib) ==
  [foreground |-> IF At(str, i + 1) # CharX THEN ColourOf(At(str, i + 1))
                  ELSE attrib.foreground,
   background |-> IF At(str, i + 2) # CharX THEN ColourOf(At(str, i + 2))
                  ELSE attrib.background]

\* the escape test of the render loop
IsEscape(str, i) ==
  i + 1 < Len(str) /\ At(str, i) = Backslash /\ At(str, i + 1) = Hash

\* a slip: only a '#' followed by two digits or 'X's is taken as a tag
IsTag_WellFormed(str, i) ==
  /\ i + 2 < Len(str) /\ At(str, i) = Hash
  /\ \A j \in {i + 1, i + 2} :
        At(str, j) = CharX \/ (At(str, j) >= Char0 /\ At(str, j) <= Char0 + 9)

\* the tag test of the render loop
IsTag(str, i) == i + 2 < Len(str) /\ At(str, i) = Hash

\* The render loop.  st = [i, xpos, attrib, buf, events, brk]; events logs what
\* each iteration did: "esc" (continue), "tag" (attribute change), "put" (a
\* cell written at buffer index idx), with the running attribute after it.
RECURSIVE string_loop(_, _, _, _)
string_loop(position, start, str, st) ==
  IF ~(st.i < Len(str)) THEN st
  ELSE IF ReachedEnd(position, st.xpos) THEN [st EXCEPT !.brk = TRUE]
  ELSE IF IsEscape(str, st.i) THEN
    string_loop(position, start, str,
      [st EXCEPT !.i = st.i + 1,
                 !.events = Append(st.events,
                   [kind |-> "esc", i |-> st.i, xpos |-> st.xpos, idx |-> -1,
                    attr |-> AttribWord(st.attrib)])])
  ELSE IF IsTag(str, st.i) THEN
    LET a == TagAttrib(str, st.i, st.attrib)
    IN  string_loop(position, start, str,
          [st EXCEPT !.i = (st.i + 2) + 1,
                     !.attrib = a,
                     !.events = Append(st.events,
                       [kind |-> "tag", i |-> st.i, xpos |-> st.xpos, idx |-> -1,
                        attr |-> AttribWord(a)])])
  ELSE
    string_loop(position, start, str,
      [st EXCEPT !.i = st.i + 1,
                 !.xpos = st.xpos + 1,
                 !.buf = [st.buf EXCEPT ![(start + st.xpos) + 1] =
                            Cell(At(str, st.i), st.attrib)],
                 !.events = Append(st.events,
                   [kind |-> "put", i |-> st.i, xpos |-> st.xpos,
                    idx |-> start + st.xpos,
                    attr |-> AttribWord(st.attrib)])])

\* whether the two asserts at the top of impl::string pass
StringAsserts(position) ==
  position.x >= 0 /\ position.y >= 0 /\ position.y < size.y

\* a slip: the pair's second component is one past the last column written
ReturnedPair_OnePast(position, start, xpos) ==
  LET first == start - position.y * size.x
  IN  [first |-> first, last |-> first + xpos]

\* the pair impl::string returns: { first, first + (int)xpos - 1 }
ReturnedPair(position, start, xpos) ==
  LET first == start - position.y * size.x
  IN  [first |-> first, last |-> (first + xpos) - 1]

\* impl::string past its asserts: the new backbuffer, the pair returned, the log
impl_string(position, attrib, centered, str) ==
  LET start == StartIndex(position, centered, str)
      st    == string_loop(position, start, str,
                 [i |-> 0, xpos |-> 0, attrib |-> attrib, buf |-> backbuffer,
                  events |-> <<>>, brk |-> FALSE])
      pair  == ReturnedPair(position, start, st.xpos)
  IN  [buf |-> st.buf, first |-> pair.first, last |-> pair.last,
       xpos |-> st.xpos, events |-> st.events, brk |-> st.brk]

----------------------------------------------------------------------------
(* The record of the last completed call *)

NoPos == [x |-> 0, y |-> 0]

NoCall ==
  [op |-> "none", position |-> NoPos, attrib |-> 0, centered |-> FALSE,
   str |-> <<>>, c |-> 0, first |-> 0, last |-> -1, xpos |-> 0,
   events |-> <<>>, brk |-> FALSE, type |-> "none", ok |-> TRUE, value |-> 0,
   after_failed |-> "none", before |-> 0, tmp |-> 0, parsed |-> FALSE]

\* no input call is in progress; was_visible notes the cursor's visibility
\* when the call was made, target the caller's value before the call
NoInput ==
  [type |-> "none", should_hide_cursor |-> FALSE, position |-> NoPos,
   was_visible |-> FALSE, target |-> 0]

\* the program is running and not blocked inside input
Ready == status = "running" /\ pending = NoInput /\ nops < MaxOps

\* a drawing call has a backbuffer to write to
HasGrid == backbuffer # <<>>

----------------------------------------------------------------------------
(* Inputs *)

Dims == (0 - NegDim)..MaxW
Widths == 1..MaxW
Heights == 1..MaxH
Columns == 0..MaxW
Rows == 0..(MaxH - 1)
Positions == [x : Columns, y : Rows]
InputPositions == {[x |-> 0, y |-> 0], [x |-> 1, y |-> 1]}

\* white-on-black and green-on-red
BaseAttribs == {attribute(white, black), attribute(2, 4)}

\* '.' and ' '
FillChars == {46, Space}

\* the characters strings are made of: '\', '#', 'X', '4', 'a'
Alphabet == {Backslash, Hash, CharX, 52, 97}

RECURSIVE StrsOfLen(_)
StrsOfLen(n) ==
  IF n = 0 THEN {<<>>}
  ELSE {Append(s, ch) : s \in StrsOfLen(n - 1), ch \in Alphabet}

\* every string of at most MaxLen characters
Strs == UNION {StrsOfLen(n) : n \in 0..MaxLen}

\* a few strings: plain text, an escape, tags, a trailing '#'
SampleStrs ==
  {<<>>, <<97>>, <<97, 97, 97>>, <<Backslash, Hash>>,
   <<Hash, 52, CharX, 97>>, <<97, Hash>>}

----------------------------------------------------------------------------
(* size(vec2) *)

\* the element count size() computes: (size_t)size.x * (size_t)size.y
NumChars(w, h) == MulSizeT(ToSizeT(w), ToSizeT(h))

\* whether size()'s assert(num_chars > 0) passes
SizeAssert(w, h) == ~IsZeroSizeT(NumChars(w, h))

\* make_unique<CHAR_INFO[]>(num_chars) followed by the memset
FreshBuffer(n) == [i \in 1..n |-> ZeroCell]

\* the body of size(): the size is stored first, then the assert, then the
\* allocation, which throws when the count cannot be served
SizeBody(w, h) ==
  /\ size' = [x |-> w, y |-> h]
  /\ IF ~SizeAssert(w, h)
       THEN status' = "aborted" /\ UNCHANGED backbuffer
     ELSE IF ~Allocatable(NumChars(w, h))
       THEN status' = "thrown" /\ UNCHANGED backbuffer
     ELSE /\ backbuffer' = FreshBuffer(SizeTValue(NumChars(w, h)))
          /\ UNCHANGED status

Size(w, h) ==
  /\ Ready
  /\ SizeBody(w, h)
  /\ call' = [NoCall EXCEPT !.op = "size", !.position = [x |-> w, y |-> h]]
  /\ nops' = nops + 1
  /\ UNCHANGED <<handles, cursor, cin, pending>>

\* initialize(): fetch the handles, then size() to the console window's size,
\* srWindow.Right + 1 by srWindow.Bottom + 1
Initialize(right, bottom) ==
  /\ Ready
  /\ handles' = TRUE
  /\ SizeBody(right + 1, bottom + 1)
  /\ call' = [NoCall EXCEPT !.op = "initialize",
                            !.position = [x |-> right + 1, y |-> bottom + 1]]
  /\ nops' = nops + 1
  /\ UNCHANGED <<cursor, cin, pending>>

----------------------------------------------------------------------------
(* fill, clear, hline, vline, character *)

\* the loop of fill(): every index below (size_t)size.x * (size_t)size.y
FillBuffer_SkipsLast(attrib, c) ==
  LET n == SizeTValue(NumChars(size.x, size.y)) - 1
  IN  [i \in 1..Len(backbuffer) |->
         IF i - 1 < n THEN Cell(c, attrib) ELSE backbuffer[i]]

FillBuffer(attrib, c) ==
  LET n == SizeTValue(NumChars(size.x, size.y))
  IN  [i \in 1..Len(backbuffer) |->
         IF i - 1 < n THEN Cell(c, attrib) ELSE backbuffer[i]]

Fill(attrib, c) ==
  /\ Ready /\ HasGrid
  /\ backbuffer' = FillBuffer(attrib, c)
  /\ call' = [NoCall EXCEPT !.op = "fill", !.attrib = AttribWord(attrib), !.c = c]
  /\ nops' = nops + 1
  /\ UNCHANGED <<size, handles, status, cursor, cin, pending>>

Clear ==
  /\ Ready /\ HasGrid
  /\ backbuffer' = FillBuffer(attribute(black, black), Space)
  /\ call' = [NoCall EXCEPT !.op = "clear"]
  /\ nops' = nops + 1
  /\ UNCHANGED <<size, handles, status, cursor, cin, pending>>

\* hline(): the caller passes a row of the grid
HLine(ypos, attrib, c) ==
  /\ Ready /\ HasGrid
  /\ ypos >= 0 /\ ypos < size.y
  /\ backbuffer' =
       [i \in 1..Len(backbuffer) |->
          IF \E k \in 0..(size.x - 1) : i - 1 = k + ypos * size.x
            THEN Cell(c, attrib) ELSE backbuffer[i]]
  /\ call' = [NoCall EXCEPT !.op = "hline", !.position = [x |-> 0, y |-> ypos],
                            !.attrib = AttribWord(attrib), !.c = c]
  /\ nops' = nops + 1
  /\ UNCHANGED <<size, handles, status, cursor, cin, pending>>

\* vline(): the caller passes a column of the grid
VLine(xpos, attrib, c) ==
  /\ Ready /\ HasGrid
  /\ xpos >= 0 /\ xpos < size.x
  /\ backbuffer' =
       [i \in 1..Len(backbuffer) |->
          IF \E k \in 0..(size.y - 1) : i - 1 = xpos + k * size.x
            THEN Cell(c, attrib) ELSE backbuffer[i]]
  /\ call' = [NoCall EXCEPT !.op = "vline", !.position = [x |-> xpos, y |-> 0],
                            !.attrib = AttribWord(attrib), !.c = c]
  /\ nops' = nops + 1
  /\ UNCHANGED <<size, handles, status, cursor, cin, pending>>

\* the two asserts of character()
CharacterAsserts(position) ==
  /\ position.x >= 0 /\ position.x < size.x
  /\ position.y >= 0 /\ position.y < size.y

Character(position, attrib, c) ==
  /\ Ready /\ HasGrid
  /\ IF CharacterAsserts(position)
       THEN /\ backbuffer' =
                 [backbuffer EXCEPT ![(position.x + position.y * size.x) + 1] =
                    Cell(c, attrib)]
            /\ UNCHANGED status
       ELSE status' = "aborted" /\ UNCHANGED backbuffer
  /\ call' = [NoCall EXCEPT !.op = "character", !.position = position,
                            !.attrib = AttribWord(attrib), !.c = c]
  /\ nops' = nops + 1
  /\ UNCHANGED <<size, handles, cursor, cin, pending>>

----------------------------------------------------------------------------
(* string, stringc, string_len: the format holds no conversion, so the     *)
(* formatted buffer is the format itself                                   *)

DrawString(op, position, attrib, centered, str) ==
  /\ Ready /\ HasGrid
  /\ IF StringAsserts(position)
       THEN LET r == impl_string(position, attrib, centered, str)
            IN  /\ backbuffer' = r.buf
                /\ call' = [NoCall EXCEPT !.op = op, !.position = position,
                              !.attrib = AttribWord(attrib),
                              !.centered = centered, !.str = str,
                              !.first = r.first, !.last = r.last,
                              !.xpos = r.xpos, !.events = r.events,
                              !.brk = r.brk]
                /\ UNCHANGED status
       ELSE /\ status' = "aborted"
            /\ call' = [NoCall EXCEPT !.op = op, !.position = position,
                          !.attrib = AttribWord(attrib),
                          !.centered = centered, !.str = str]
            /\ UNCHANGED backbuffer
  /\ nops' = nops + 1
  /\ UNCHANGED <<size, handles, cursor, cin, pending>>

String(position, attrib, str) == DrawString("string", position, attrib, FALSE, str)

Stringc(position, attrib, str) == DrawString("stringc", position, attrib, TRUE, str)

StringLen(str) ==
  /\ Ready
  /\ call' = [NoCall EXCEPT !.op = "string_len", !.str = str,
                            !.value = string_length(str)]
  /\ nops' = nops + 1
  /\ UNCHANGED <<size, backbuffer, handles, status, cursor, cin, pending>>

----------------------------------------------------------------------------
(* The cursor: enable(cursor), disable(cursor), enabled(cursor), move_cursor *)

\* impl::enable_cursor
enable_cursor(cur) == [cur EXCEPT !.visible = TRUE]

\* impl::disable_cursor
disable_cursor(cur) == [cur EXCEPT !.visible = FALSE]

\* impl::cursor_enabled
cursor_enabled(cur) == cur.visible

\* move_cursor
move_cursor(cur, position) == [cur EXCEPT !.x = position.x, !.y = position.y]

EnableCursor ==
  /\ Ready /\ handles
  /\ cursor' = enable_cursor(cursor)
  /\ call' = [NoCall EXCEPT !.op = "enable"]
  /\ nops' = nops + 1
  /\ UNCHANGED <<size, backbuffer, handles, status, cin, pending>>

DisableCursor ==
  /\ Ready /\ handles
  /\ cursor' = disable_cursor(cursor)
  /\ call' = [NoCall EXCEPT !.op = "disable"]
  /\ nops' = nops + 1
  /\ UNCHANGED <<size, backbuffer, handles, status, cin, pending>>

----------------------------------------------------------------------------
(* std::cin: the characters typed and not yet read, and the fail bit *)

IsDigit(c) == c >= Char0 /\ c <= Char0 + 9

IsSpace(c) == c = Space \/ c = Newline

RECURSIVE SkipWs(_)
\* the sentry of operator>> skips leading whitespace
SkipWs(buf) ==
  IF buf # <<>> /\ IsSpace(Head(buf)) THEN SkipWs(Tail(buf)) ELSE buf

RECURSIVE TakeDigits(_, _)
\* accumulate the leading digits of buf: [n (digits taken), value, rest]
TakeDigits(buf, acc) ==
  IF buf # <<>> /\ IsDigit(Head(buf))
    THEN TakeDigits(Tail(buf),
           [acc EXCEPT !.n = acc.n + 1,
                       !.value = acc.value * 10 + (Head(buf) - Char0)])
    ELSE [acc EXCEPT !.rest = buf]

\* std::cin >> tmp for a short: [ok, value, buf, fail].  A stream that has
\* failed extracts nothing; otherwise whitespace is skipped, an optional sign
\* and the digits are taken; no digits, or a value outside the type's range,
\* sets the fail bit (the value is then 0, or the nearest limit).
ExtractShort(stream) ==
  IF stream.fail
    THEN [ok |-> FALSE, value |-> 0, buf |-> stream.buf, fail |-> TRUE]
  ELSE
    LET t    == SkipWs(stream.buf)
        neg  == t # <<>> /\ Head(t) = 45
        sgn  == t # <<>> /\ (Head(t) = 45 \/ Head(t) = 43)
        d    == TakeDigits(IF sgn THEN Tail(t) ELSE t,
                           [n |-> 0, value |-> 0, rest |-> <<>>])
        v    == IF neg THEN 0 - d.value ELSE d.value
    IN  IF d.n = 0
          THEN [ok |-> FALSE, value |-> 0, buf |-> d.rest, fail |-> TRUE]
        ELSE IF v > 32767
          THEN [ok |-> FALSE, value |-> 32767, buf |-> d.rest, fail |-> TRUE]
        ELSE IF v < -32768
          THEN [ok |-> FALSE, value |-> -32768, buf |-> d.rest, fail |-> TRUE]
        ELSE [ok |-> TRUE, value |-> v, buf |-> d.rest, fail |-> FALSE]

RECURSIVE UpToNewline(_)
\* the characters of buf before its first newline
UpToNewline(buf) ==
  IF buf = <<>> \/ Head(buf) = Newline THEN <<>>
  ELSE <<Head(buf)>> \o UpToNewline(Tail(buf))

RECURSIVE AfterNewline(_)
\* buf past its first newline
AfterNewline(buf) ==
  IF buf = <<>> THEN <<>>
  ELSE IF Head(buf) = Newline THEN Tail(buf)
  ELSE AfterNewline(Tail(buf))

\* a slip: the fail bit is cleared but the offending line is left in the stream
Recover_NoIgnore(stream) == [buf |-> stream.buf, fail |-> FALSE]

\* std::cin.clear(); std::cin.ignore(INT_MAX, '\n')
Recover(stream) == [buf |-> AfterNewline(stream.buf), fail |-> FALSE]

\* the user types a line, newline included
InputLines ==
  {<<97, Newline>>, <<55, Newline>>, <<51, 48, 48, Newline>>,
   <<45, 55, Newline>>, <<55, 97, Newline>>}


Type(line) ==
  /\ status = "running"
  /\ Len(cin.buf) + Len(line) <= MaxBuf
  /\ cin' = [cin EXCEPT !.buf = cin.buf \o line]
  /\ UNCHANGED <<size, backbuffer, handles, status, cursor, pending, call, nops>>

----------------------------------------------------------------------------
(* input<T>: the call up to its blocking read, and the read to its return *)

InputTypes == {"string", "short", "uint8"}

\* what the caller's variable holds when it is passed to input: an empty
\* string, or a number that no line of InputLines stores
TargetValues(T) == IF T = "string" THEN {<<>>} ELSE {9}

\* a slip: the cursor is hidden again when it was visible before the call
ShouldHide_Flipped(cur) == cursor_enabled(cur)

\* should_hide_cursor = !enabled(cursor)
ShouldHide(cur) == ~cursor_enabled(cur)

\* input(), from its entry to the blocking read
InputBegin(position, T, value) ==
  /\ Ready /\ handles
  /\ pending' = [type |-> T, should_hide_cursor |-> ShouldHide(cursor),
                 position |-> position, was_visible |-> cursor.visible,
                 target |-> value]
  /\ cursor' = move_cursor(enable_cursor(cursor), position)
  /\ nops' = nops + 1
  /\ UNCHANGED <<size, backbuffer, handles, status, cin, call>>

\* the blocking read can return: a whole line for getline, a token for >>
ReadAvailable(T) ==
  IF T = "string" THEN \E k \in 1..Len(cin.buf) : cin.buf[k] = Newline
  ELSE cin.fail \/ SkipWs(cin.buf) # <<>>

\* what an uninitialised short may hold (short tmp; is not initialised)
UninitShorts == {-1, 300}

\* What the variable given to >> holds after the extraction.  A successful
\* extraction stores the number.  A failed one stores 0 or the nearest limit
\* where the library follows the standard, and stores nothing in libraries
\* that assign on success only: the caller's value is then kept, and tmp, a
\* local that was never initialised, holds anything.
StoredValues(T, target) ==
  LET r == ExtractShort(cin)
  IN  IF T = "string" THEN {0}
      ELSE IF r.ok THEN {r.value}
      ELSE IF T = "uint8" THEN {r.value} \cup UninitShorts
      ELSE {r.value, target}

\* the read and the recovery of input<T>: [success, value, stream], with what
\* the extraction left in its variable: tmp, and parsed, whether
\* (bool)(std::cin >> tmp) held
ReadValue(T, stored) ==
  IF T = "string"
    THEN [success |-> TRUE, value |-> UpToNewline(cin.buf),
          stream |-> [cin EXCEPT !.buf = AfterNewline(cin.buf)],
          tmp |-> 0, parsed |-> TRUE]
  ELSE
    LET r  == ExtractShort(cin)
        ok == IF T = "uint8" THEN r.ok /\ stored >= 0 /\ stored < 256
              ELSE r.ok
        v  == IF T = "uint8" THEN stored % 256 ELSE stored
        st == [buf |-> r.buf, fail |-> r.fail]
    IN  [success |-> ok, value |-> v,
         stream |-> IF ~ok THEN Recover(st) ELSE st,
         tmp |-> stored, parsed |-> r.ok]

\* "reset our cursor state basically"
RestoreCursor(cur, should_hide_cursor) ==
  IF should_hide_cursor THEN disable_cursor(cur) ELSE cur

\* input(), from the read to its return
InputRead ==
  /\ status = "running" /\ pending.type # "none"
  /\ ReadAvailable(pending.type)
  /\ \E stored \in StoredValues(pending.type, pending.target) :
     LET r == ReadValue(pending.type, stored)
     IN  /\ cin' = r.stream
         /\ call' = [NoCall EXCEPT !.op = "input", !.type = pending.type,
                       !.position = pending.position,
                       !.ok = r.success, !.value = r.value,
                       !.before = pending.target,
                       !.tmp = r.tmp, !.parsed = r.parsed,
                       !.after_failed =
                         IF call.op = "input" /\ ~call.ok THEN call.type
                         ELSE "none"]
  /\ cursor' = RestoreCursor(cursor, pending.should_hide_cursor)
  /\ pending' = NoInput
  /\ UNCHANGED <<size, backbuffer, handles, status, nops>>

----------------------------------------------------------------------------
(* The state after construction: no handles, size {0, 0}, no backbuffer *)

Init ==
  /\ size = [x |-> 0, y |-> 0]
  /\ backbuffer = <<>>
  /\ handles = FALSE
  /\ status = "running"
  /\ cursor = [visible |-> TRUE, x |-> 0, y |-> 0]
  /\ cin = [buf |-> <<>>, fail |-> FALSE]
  /\ pending = NoInput
  /\ call = NoCall
  /\ nops = 0

\* A program that sets up a grid, fills it and draws one string into it
NextString ==
  \/ nops = 0 /\ \E w \in Widths, h \in Heights : Size(w, h)
  \/ nops = 1 /\ Fill(attribute(white, black), 46)
  \/ nops = 2 /\ \E p \in Positions, s \in Strs :
       String(p, attribute(2, 1), s)
  \/ nops = 2 /\ \E p \in Positions, s \in Strs :
       Stringc(p, attribute(2, 1), s)
  \/ nops = 2 /\ \E s \in Strs : StringLen(s)

SpecString == Init /\ [][NextString]_vars

\* the grid, the position and the strings of a worked example: a 10 x 3 grid,
\* a draw at (2, 1), the strings "#41Hi", "#X1Hi" and "Hi"
ScenarioSize == [x |-> 10, y |-> 3]
ScenarioPosition == [x |-> 2, y |-> 1]
ScenarioStr == <<Hash, 52, 49, 72, 105>>
ScenarioStrs == {ScenarioStr, <<Hash, CharX, 49, 72, 105>>, <<72, 105>>}
ScenarioPositions == [x : 0..ScenarioSize.x, y : 0..(ScenarioSize.y - 1)]

\* A program that sizes the grid of the example, fills it and draws a string
NextScenario ==
  \/ nops = 0 /\ Size(ScenarioSize.x, ScenarioSize.y)
  \/ nops = 1 /\ \E a \in BaseAttribs, c \in FillChars : Fill(a, c)
  \/ nops = 2 /\ \E p \in ScenarioPositions, a \in BaseAttribs :
       \E s \in ScenarioStrs : String(p, a, s)

SpecScenario == Init /\ [][NextScenario]_vars

\* A program that sets up the console and reads values from the user
NextInput ==
  \/ Ready /\ \E r \in 0..(MaxW - 1), b \in 0..(MaxH - 1) : nops = 0 /\ Initialize(r, b)
  \/ EnableCursor
  \/ DisableCursor
  \/ \E line \in InputLines : Type(line)
  \/ Ready /\ \E p \in InputPositions, T \in InputTypes :
       \E v \in TargetValues(T) : InputBegin(p, T, v)
  \/ InputRead

SpecInput == Init /\ [][NextInput]_vars

\* A program that draws: every drawing call, in any order.  The drawing calls
\* and the input calls share no state but the handles, so the two kinds of
\* program are explored apart (Next here, NextInput above).
Next ==
  \/ Ready /\ \E r \in 0..(MaxW - 1), b \in 0..(MaxH - 1) : Initialize(r, b)
  \/ Ready /\ \E w \in Dims, h \in Dims : Size(w, h)
  \/ Ready /\ \E a \in BaseAttribs, c \in FillChars : Fill(a, c)
  \/ Clear
  \/ Ready /\ \E y \in Rows, a \in BaseAttribs : HLine(y, a, 46)
  \/ Ready /\ \E x \in Columns, a \in BaseAttribs : VLine(x, a, 46)
  \/ Ready /\ \E p \in Positions, a \in BaseAttribs : Character(p, a, 46)
  \/ Ready /\ \E p \in Positions, s \in SampleStrs :
       String(p, attribute(2, 1), s)
  \/ Ready /\ \E p \in Positions, s \in SampleStrs :
       Stringc(p, attribute(2, 1), s)
  \/ Ready /\ \E s \in SampleStrs : StringLen(s)

Spec == Init /\ [][Next]_vars

----------------------------------------------------------------------------
(* Claims about string / stringc, checked under SpecString *)

\* the last call was a string or stringc that got past its asserts
Drew == call.op \in {"string", "stringc"} /\ status = "running"

\* the positions in the log of the iterations that wrote a cell
Puts == {k \in 1..Len(call.events) : call.events[k].kind = "put"}

\* the column, relative to row position.y, of a buffer index
ColumnOf(idx) == idx - call.position.y * size.x

\* the running attribute before the k-th logged iteration
AttrBefore(k) == IF k = 1 THEN call.attrib ELSE call.events[k - 1].attr

Min(a, b) == IF a < b THEN a ELSE b

\* C1: every cell a string/stringc call writes lies in row position.y, at a
\* column c with 0 <= c < width: never a column >= width, never the previous row.
C1_WritesStayInRow ==
  (Drew /\ size.x > 0 /\ size.y > 0) =>
    \A k \in Puts :
      /\ ColumnOf(call.events[k].idx) >= 0
      /\ ColumnOf(call.events[k].idx) < size.x
      /\ call.events[k].idx + 1 \in DOMAIN backbuffer

\* a centred draw on a width-1 grid whose half-length exceeds position.x, which
\* wrote a cell and was then clipped
C1_Witness ==
  /\ Drew /\ call.op = "stringc" /\ size.x = 1
  /\ string_length(call.str) \div 2 > call.position.x
  /\ Puts # {} /\ call.brk

\* a draw at position.x >= width writes nothing
C1_WitnessRightOfGrid ==
  Drew /\ call.position.x >= size.x /\ call.str # <<>> /\ Puts = {}

\* C2 (as claimed): in a draw that was not clipped, every backslash followed by
\* '#' that the scan arrives at writes no cell itself, and its '#' is written as
\* exactly one cell holding '#' with the running attribute unchanged.
C2_EscapeWritesOneHash ==
  (Drew /\ ~call.brk) =>
    \A k \in 1..Len(call.events) :
      LET e == call.events[k]
      IN  (/\ e.i + 1 < Len(call.str)
           /\ At(call.str, e.i) = Backslash
           /\ At(call.str, e.i + 1) = Hash)
          => /\ e.kind # "put"
             /\ e.attr = AttrBefore(k)
             /\ k + 1 <= Len(call.events)
             /\ call.events[k + 1].i = e.i + 1
             /\ call.events[k + 1].kind = "put"
             /\ backbuffer[call.events[k + 1].idx + 1] =
                  [ch |-> Hash, attr |-> AttrBefore(k)]

\* whether a colour code is a decimal digit or 'X'
WellFormedCode(c) == c = CharX \/ (c >= Char0 /\ c <= Char0 + 9)

\* the channel value a well-formed code asks for
CodeValue(c, old) == IF c = CharX THEN old ELSE c - Char0

\* the packed attribute after a well-formed tag F B applied to the packed attribute w
AfterTag(w, f, b) ==
  CodeValue(f, w % 16) + 16 * CodeValue(b, w \div 16)

\* C3: the running attribute starts as the base attribute; a well-formed tag
\* '#FB' writes no cell, does not advance the column and sets the running
\* attribute (digit: channel set, 'X': channel kept); every other iteration
\* keeps it, and each cell written carries the running attribute.
C3_TagsSetRunningAttribute ==
  Drew =>
    \A k \in 1..Len(call.events) :
      LET e == call.events[k]
          isTag == /\ e.i + 2 < Len(call.str)
                   /\ At(call.str, e.i) = Hash
                   /\ WellFormedCode(At(call.str, e.i + 1))
                   /\ WellFormedCode(At(call.str, e.i + 2))
      IN  /\ isTag =>
               /\ e.kind # "put"
               /\ e.attr = AfterTag(AttrBefore(k), At(call.str, e.i + 1),
                                    At(call.str, e.i + 2))
               /\ k < Len(call.events) =>
                    /\ call.events[k + 1].xpos = e.xpos
                    /\ call.events[k + 1].i = e.i + 3
          /\ e.kind # "tag" => e.attr = AttrBefore(k)
          /\ e.kind = "put" =>
               backbuffer[e.idx + 1] = [ch |-> At(call.str, e.i), attr |-> AttrBefore(k)]

\* a draw in which a tag changed one channel and a character was written after it
C3_Witness ==
  /\ Drew
  /\ \E k \in 1..Len(call.events) :
       /\ call.events[k].kind = "tag"
       /\ At(call.str, call.events[k].i + 1) = CharX
       /\ At(call.str, call.events[k].i + 2) = 52
       /\ call.events[k].attr # call.attrib
       /\ k + 1 \in Puts

\* C4 (as claimed): a left-aligned draw that fits, position.x +
\* string_length(s) <= width, writes exactly string_length(s) cells.
C4_LengthIsCellsWritten ==
  (Drew /\ call.op = "string"
        /\ call.position.x + string_length(call.str) <= size.x)
    => Cardinality(Puts) = string_length(call.str)

\* C5 (as claimed): a centred draw of tag-stripped length L at column c, with
\* L/2 <= c < W, starts at column c - L/2 and writes min(L, W - (c - L/2)) cells.
C5_CentredSpan ==
  LET L == string_length(call.str)
      c == call.position.x
  IN  (Drew /\ call.op = "stringc" /\ L \div 2 <= c /\ c < size.x)
        => /\ call.first = c - L \div 2
           /\ Cardinality(Puts) = Min(L, size.x - (c - L \div 2))

\* C6: a string/stringc call that writes a cell returns (first, last), the
\* lowest and highest column written in row position.y; the cells written are
\* the contiguous columns first..last; every cell outside them is unchanged; a
\* call that writes nothing leaves the grid unchanged.
C6_ReturnedRangeAndFrame ==
  [][ (call'.op \in {"string", "stringc"} /\ status' = "running")
      => LET y == call'.position.y
             W == size.x
             wr == {call'.events[k].idx :
                      k \in {j \in 1..Len(call'.events) :
                               call'.events[j].kind = "put"}}
         IN  /\ wr = {y * W + col : col \in call'.first..call'.last}
             /\ call'.xpos = Cardinality(wr)
             /\ wr # {} => /\ call'.first >= 0
                           /\ call'.last < W
                           /\ call'.first <= call'.last
             /\ DOMAIN backbuffer' = DOMAIN backbuffer
             /\ \A i \in DOMAIN backbuffer :
                  (i - 1) \notin wr => backbuffer'[i] = backbuffer[i]
             /\ wr = {} => backbuffer' = backbuffer ]_vars

\* a centred, clipped draw that wrote more than one cell starting left of position.x
C6_Witness ==
  /\ Drew /\ call.op = "stringc" /\ call.brk
  /\ Cardinality(Puts) >= 2
  /\ call.first < call.position.x
  /\ call.last = call.first + 1

----------------------------------------------------------------------------
(* Claims about size, checked under Spec *)

\* the last call was a size() (directly, or from initialize()) that returned
Sized == call.op \in {"size", "initialize"} /\ status = "running"

\* the default cell: a space, black on black
DefaultCell == [ch |-> Space, attr |-> AttribWord(attribute(black, black))]

\* C7 (as claimed): after size(w, h) returns, each of the w * h cells of the
\* new grid is the default cell, a space in black-on-black.
C7_SizeLeavesDefaultCells ==
  (Sized /\ call.position.x > 0 /\ call.position.y > 0) =>
    /\ Len(backbuffer) = call.position.x * call.position.y
    /\ \A i \in DOMAIN backbuffer : backbuffer[i] = DefaultCell

\* C8 (as claimed): whenever a backbuffer exists the stored size is positive
\* in both dimensions, and size(w, h) gets past its assert only for w > 0 and
\* h > 0.
C8_GridHasPositiveSize ==
  /\ backbuffer # <<>> => (size.x > 0 /\ size.y > 0)
  /\ (call.op \in {"size", "initialize"} /\ status # "aborted")
       => (call.position.x > 0 /\ call.position.y > 0)

----------------------------------------------------------------------------
(* Claims about input, checked under SpecInput *)

\* an input call reaches its blocking read in this step
InputStarts == pending.type = "none" /\ pending'.type # "none"

\* an input call returns in this step
InputReturns == pending.type # "none" /\ pending'.type = "none"

\* C9: input makes the cursor visible and moves it to the requested position
\* before the blocking read, the cursor stays visible (and there) during the
\* read, and when input returns, the read having succeeded or failed, the
\* cursor's visibility is what it was immediately before the call.
C9_CursorShownThenRestored ==
  [][ /\ InputStarts =>
           /\ cursor'.visible
           /\ cursor'.x = pending'.position.x /\ cursor'.y = pending'.position.y
           /\ pending'.was_visible = cursor.visible
      /\ pending'.type # "none" =>
           /\ cursor'.visible
           /\ cursor'.x = pending'.position.x /\ cursor'.y = pending'.position.y
      /\ InputReturns => cursor'.visible = pending.was_visible ]_vars

\* an input that failed has returned, and the cursor, hidden before, is hidden again
C9_Witness ==
  /\ call.op = "input" /\ ~call.ok /\ pending.type = "none"
  /\ ~cursor.visible

\* an input that succeeded has returned, and the cursor, visible before, is still visible
C9_WitnessVisible ==
  /\ call.op = "input" /\ call.ok /\ call.type = "string" /\ pending.type = "none"
  /\ cursor.visible

\* the positions in buf of the characters that are not whitespace
Ink(buf) == {k \in 1..Len(buf) : buf[k] # Space /\ buf[k] # Newline}

\* the first character of the next input line
FirstInk(buf) == CHOOSE k \in Ink(buf) : \A j \in Ink(buf) : k <= j

\* the position of the newline that ends the line position k is in
LineEnd(buf, k) ==
  CHOOSE n \in k..Len(buf) :
    buf[n] = Newline /\ \A j \in k..(n - 1) : buf[j] # Newline

\* the next input line starts with a letter: it parses as no number
Offending(buf) == Ink(buf) # {} /\ buf[FirstInk(buf)] = 97

RECURSIVE DecimalValue(_, _, _)
\* the number written by the digits buf[from..to]
DecimalValue(buf, from, to) ==
  IF to < from THEN 0
  ELSE 10 * DecimalValue(buf, from, to - 1) + (buf[to] - Char0)

\* the next input line is one to three digits and nothing else
DigitsLine(buf) ==
  /\ Ink(buf) # {}
  /\ LET k == FirstInk(buf)
         n == LineEnd(buf, k)
     IN  /\ n > k /\ n - k <= 3
         /\ \A j \in k..(n - 1) : buf[j] >= Char0 /\ buf[j] <= Char0 + 9

\* the value of a next line of digits
LineValue(buf) == DecimalValue(buf, FirstInk(buf), LineEnd(buf, FirstInk(buf)) - 1)

\* the next input line is a number every numeric type here can hold
ValidLine(buf) == DigitsLine(buf) /\ LineValue(buf) < 256

\* the next input line does not parse as type T: it starts with a letter, or
\* it is a number that an 8-bit unsigned target cannot hold
OffendingFor(T, buf) ==
  \/ Offending(buf)
  \/ T = "uint8" /\ DigitsLine(buf) /\ LineValue(buf) >= 256

\* C10: an input for a numeric type whose next line does not parse returns
\* false without an error, leaves the stream's fail bit clear and has discarded
\* the offending line through its newline; an input for a numeric type whose
\* next line is valid (so also one that follows such a failure) returns true
\* with that line's value.
C10_FailedReadRecovers ==
  [][ (InputReturns /\ pending.type \in {"short", "uint8"}) =>
        /\ OffendingFor(pending.type, cin.buf) =>
             /\ call'.op = "input" /\ ~call'.ok
             /\ status' = "running"
             /\ ~cin'.fail
             /\ cin'.buf = SubSeq(cin.buf, LineEnd(cin.buf, FirstInk(cin.buf)) + 1,
                                  Len(cin.buf))
        /\ ValidLine(cin.buf) =>
             /\ call'.op = "input" /\ call'.ok
             /\ call'.value = LineValue(cin.buf)
             /\ ~cin'.fail ]_vars

\* a numeric input returned true with the value 7 right after an input of the
\* same type had failed
C10_Witness ==
  /\ call.op = "input" /\ call.type = "short" /\ call.after_failed = "short"
  /\ call.ok /\ call.value = 7

----------------------------------------------------------------------------
(* Claims about input with an 8-bit unsigned target, checked under SpecInput *)

\* C11 (as claimed): an input for an 8-bit unsigned target returns true
\* exactly when the token parses as a 16-bit signed n with 0 <= n < 256, and
\* the target is assigned only the narrowing of an n that passed that check:
\* after a call that returns false the target holds what it held before.
C11_TargetSetOnlyWhenInRange ==
  (call.op = "input" /\ call.type = "uint8") =>
    /\ call.ok = (call.parsed /\ call.tmp >= 0 /\ call.tmp < 256)
    /\ call.ok => call.value = call.tmp
    /\ ~call.ok => call.value = call.before

\* C12: after fill(attr, ch) every one of the width * height cells of the grid
\* holds the character ch and the attribute attr, whatever the grid held
\* before; after clear() every cell is what fill(black-on-black, space) leaves,
\* a space in black-on-black.
C12_FillSetsEveryCell ==
  /\ call.op = "fill" =>
        /\ Len(backbuffer) = size.x * size.y
        /\ \A i \in DOMAIN backbuffer :
              backbuffer[i] = [ch |-> call.c, attr |-> call.attrib]
  /\ call.op = "clear" =>
        /\ Len(backbuffer) = size.x * size.y
        /\ \A i \in DOMAIN backbuffer : backbuffer[i] = DefaultCell

\* a fill of the largest grid, as the third call: the grid was sized and then
\* drawn on or filled before this fill overwrote it
C12_Witness ==
  /\ call.op = "fill" /\ nops = MaxOps
  /\ Len(backbuffer) = MaxW * MaxH
  /\ call.c = 46 /\ call.attrib = AttribWord(attribute(2, 4))

----------------------------------------------------------------------------
(* The worked example, checked under SpecScenario *)

\* the cell fill('.', white on black) leaves
DotCell == Cell(46, attribute(white, black))

\* the step of the example: on the 10 x 3 grid holding '.' in white on black in
\* every cell, string() draws "#41Hi" left-aligned at (2, 1) with the base
\* attribute white on black
ScenarioStep ==
  /\ size = ScenarioSize
  /\ \A i \in DOMAIN backbuffer : backbuffer[i] = DotCell
  /\ call'.op = "string" /\ status' = "running"
  /\ call'.position = ScenarioPosition
  /\ call'.attrib = AttribWord(attribute(white, black))
  /\ call'.str = ScenarioStr

\* the foreground field of a cell's attribute word
ForegroundOf(cell) == cell.attr % Pow2(AttrBits)

\* C13 (as claimed): the draw of the example leaves cell (2, 1) without a
\* glyph from the string, writes 'H' with foreground 4 at (3, 1) and 'i' with
\* foreground 4 at (4, 1), and leaves every other cell holding '.'.
C13_TagTakesACell ==
  [][ScenarioStep =>
       /\ backbuffer'[CellIndex(2, 1)].ch = 46
       /\ backbuffer'[CellIndex(3, 1)].ch = 72
       /\ ForegroundOf(backbuffer'[CellIndex(3, 1)]) = 4
       /\ backbuffer'[CellIndex(4, 1)].ch = 105
       /\ ForegroundOf(backbuffer'[CellIndex(4, 1)]) = 4
       /\ \A i \in DOMAIN backbuffer :
             i \notin {CellIndex(3, 1), CellIndex(4, 1)} =>
               backbuffer'[i].ch = 46]_vars

\* C13 (amended): the tag takes no cell.  The draw of the example writes 'H'
\* at (2, 1) and 'i' at (3, 1), both with foreground 4 and background 1, and
\* leaves every other cell, (4, 1) included, holding '.' in white on black.
C13_TagTakesNoCell ==
  [][ScenarioStep =>
       backbuffer' =
         [i \in DOMAIN backbuffer |->
            IF i = CellIndex(2, 1) THEN Cell(72, attribute(4, 1))
            ELSE IF i = CellIndex(3, 1) THEN Cell(105, attribute(4, 1))
            ELSE DotCell]]_vars

\* the example has been drawn on the grid of dots: the call is the one of the
\* example, and the row above, the row below and the cells left and right of
\* the text still hold the dots of the fill
C13_Witness ==
  /\ size = ScenarioSize /\ Len(backbuffer) = ScenarioSize.x * ScenarioSize.y
  /\ call.op = "string" /\ status = "running"
  /\ call.position = ScenarioPosition
  /\ call.attrib = AttribWord(attribute(white, black))
  /\ call.str = ScenarioStr
  /\ Len(call.events) = 3
  /\ \A i \in DOMAIN backbuffer :
        i \notin {CellIndex(2, 1), CellIndex(3, 1)} => backbuffer[i] = DotCell

----------------------------------------------------------------------------
(* Tags whose two characters are not colour codes, checked under SpecString *)

\* the number of characters before the first '#' or '\' of a string
RECURSIVE PlainPrefix(_, _)
PlainPrefix(str, i) ==
  IF i < Len(str) /\ At(str, i) \notin {Hash, Backslash}
    THEN PlainPrefix(str, i + 1)
  ELSE i

\* the channel a character of a tag gives: (code(ch) - code('0')) mod 16, or
\* the channel as it was for 'X'
ChannelAfter(ch, old) == IF ch = CharX THEN old ELSE (ch - Char0) % 16

\* the two fields of an attribute word
FieldsOf(word) == [foreground |-> word % 16, background |-> (word \div 16) % 16]

=============================================================================
